---- MODULE Spec2Model ----
(***************************************************************************)
(* A model of GodotDebugger (tools/godot-debugger.ts): the debug-session   *)
(* registry, the child-process callbacks that feed a session, and the      *)
(* log-line parser the callbacks run on every stream chunk.                *)
(*                                                                         *)
(* Text is modelled as a sequence of tokens (a word, a blank " ", a colon  *)
(* ":", a line feed "\n", ...): a regular expression of the source is an   *)
(* operator over token sequences that picks the decomposition the          *)
(* backtracking matcher finds first.                                       *)
(***************************************************************************)
EXTENDS Integers, Sequences, FiniteSets, TLC

(***************************************************************************)
(* Bounds of the model.                                                    *)
(***************************************************************************)
MaxCalls == 2
MaxList == 2
MaxTime == 1
MaxRecent == 13
MaxLines == 2
MaxLogLines == 6
MaxCrashLines == 3
MaxIssues == 7
MaxParts == 2

(***************************************************************************)
(* Tokens.                                                                 *)
(***************************************************************************)
SP == " "
NL == "\n"
COLON == ":"
DigitTokens == {"45", "7"}
GdTokens == {"Player.gd", "//a.gd"}
NaN == -2
NoLine == -1

IsSpace(tok) == tok = SP

Last(s) == s[Len(s)]

\* String.prototype.trim on a token sequence
RECURSIVE trim(_)
trim(s) ==
  IF s = <<>> THEN s
  ELSE IF IsSpace(Head(s)) THEN trim(Tail(s))
  ELSE IF IsSpace(Last(s)) THEN trim(SubSeq(s, 1, Len(s) - 1))
  ELSE s

\* content.split('\n')
RECURSIVE split(_)
split(s) ==
  IF \A i \in 1..Len(s) : s[i] # NL THEN <<s>>
  ELSE LET i == CHOOSE k \in 1..Len(s) : s[k] = NL /\ \A j \in 1..(k - 1) : s[j] # NL
       IN  <<SubSeq(s, 1, i - 1)>> \o split(SubSeq(s, i + 1, Len(s)))

\* parseInt on a token sequence: blanks are skipped, then a run of digits is read
parseInt(s) ==
  LET t == trim(s)
  IN  IF t # <<>> /\ Head(t) \in DigitTokens
      THEN (CASE Head(t) = "45" -> 45 [] Head(t) = "7" -> 7 [] OTHER -> NaN)
      ELSE NaN

\* toLowerCase of one token
LowerTok(tok) ==
  CASE tok = "Null" -> "null"
    [] tok = "Syntax" -> "syntax"
    [] tok = "Error" -> "error"
    [] tok = "ERROR" -> "error"
    [] tok = "WARNING" -> "warning"
    [] tok = "INFO" -> "info"
    [] tok = "ERROR:" -> "error:"
    [] tok = "WARNING:" -> "warning:"
    [] tok = "INFO:" -> "info:"
    [] tok = "Input" -> "input"
    [] tok = "Audio" -> "audio"
    [] tok = "Player.gd" -> "player.gd"
    [] tok = "Invalid" -> "invalid"
    [] tok = "Scene" -> "scene"
    [] tok = "Failed" -> "failed"
    [] OTHER -> tok

toLowerCase(s) == [i \in 1..Len(s) |-> LowerTok(s[i])]

AllSpace(t, i, j) == \A k \in i..j : IsSpace(t[k])

\* the match array of a RegExp match: groups 0..3, <<>> for an unset group
NoMatch == <<>>
Match(g0, g1, g2, g3) == [m0 |-> g0, m1 |-> g1, m2 |-> g2, m3 |-> g3]

\* decompositions of t by /^KW:\s*(.+?)\s+at:\s+(.+):(\d+)/ as <<a, b, c, d, e>>:
\* group 1 is t[a..b], "at:" is t[c], group 2 is t[d..e], group 3 is t[e+2]
LocatedSplits(t, kw) ==
  LET n == Len(t)
  IN  IF n < 7 \/ t[1] # kw THEN {}
      ELSE { v \in { a \in 2..n : AllSpace(t, 2, a - 1) } \X (2..n)
                    \X { c \in 2..n : t[c] = "at:" } \X (2..n)
                    \X { e \in 2..(n - 2) : t[e + 1] = COLON /\ t[e + 2] \in DigitTokens } :
               /\ v[1] <= v[2] /\ v[2] + 2 <= v[3] /\ v[3] + 2 <= v[4]
               /\ v[4] <= v[5] /\ v[5] + 2 <= n
               /\ AllSpace(t, 2, v[1] - 1)
               /\ AllSpace(t, v[2] + 1, v[3] - 1)
               /\ t[v[3]] = "at:"
               /\ AllSpace(t, v[3] + 1, v[4] - 1)
               /\ t[v[5] + 1] = COLON
               /\ t[v[5] + 2] \in DigitTokens }

\* the order in which the backtracking matcher finds them: \s* greedy,
\* (.+?) lazy, \s+ greedy, (.+) greedy
LocatedBefore(v, w) ==
  \/ v[1] > w[1]
  \/ v[1] = w[1] /\ v[2] < w[2]
  \/ v[1] = w[1] /\ v[2] = w[2] /\ v[4] > w[4]
  \/ v[1] = w[1] /\ v[2] = w[2] /\ v[4] = w[4] /\ v[5] >= w[5]

\* /^ERROR:\s*(.+?)\s+at:\s+(.+):(\d+)/ and /^WARNING:\s*(.+?)\s+at:\s+(.+):(\d+)/
matchLocated(t, kw) ==
  LET V == LocatedSplits(t, kw)
  IN  IF V = {} THEN NoMatch
      ELSE LET v == CHOOSE x \in V : \A w \in V : LocatedBefore(x, w)
           IN  <<Match(SubSeq(t, 1, v[5] + 2), SubSeq(t, v[1], v[2]),
                       SubSeq(t, v[4], v[5]), <<t[v[5] + 2]>>)>>

\* /^(.+\.gd):(\d+):\s*(.+)/ : group 1 is t[1..g], group 3 is t[h..n]
ScriptSplits(t) ==
  LET n == Len(t)
  IN  { v \in { g \in 1..n : t[g] \in GdTokens /\ g + 4 <= n } \X (1..n) :
          /\ v[1] + 4 <= v[2]
          /\ t[v[1] + 1] = COLON
          /\ t[v[1] + 2] \in DigitTokens
          /\ t[v[1] + 3] = COLON
          /\ AllSpace(t, v[1] + 4, v[2] - 1) }

matchScript(t) ==
  LET V == ScriptSplits(t)
  IN  IF V = {} THEN NoMatch
      ELSE LET v == CHOOSE x \in V : \A w \in V :
                      x[1] > w[1] \/ (x[1] = w[1] /\ x[2] >= w[2])
           IN  <<Match(t, SubSeq(t, 1, v[1]), <<t[v[1] + 2]>>,
                       SubSeq(t, v[2], Len(t)))>>

\* the keyword of a severity prefix, without its colon
PrefixWord(tok) ==
  CASE tok = "ERROR:" -> "ERROR" [] tok = "WARNING:" -> "WARNING" [] OTHER -> "INFO"

\* /^(ERROR|WARNING|INFO):\s*(.+)/
matchGeneral(t) ==
  LET n == Len(t)
      H == { h \in 2..n : AllSpace(t, 2, h - 1) }
  IN  IF t = <<>> \/ t[1] \notin {"ERROR:", "WARNING:", "INFO:"} \/ H = {} THEN NoMatch
      ELSE LET h == CHOOSE x \in H : \A w \in H : x >= w
           IN  <<Match(t, <<PrefixWord(t[1])>>, SubSeq(t, h, n), <<>>)>>

(***************************************************************************)
(* categorizeError: the keyword table in declaration order.                *)
(***************************************************************************)
Categories == <<
  [name |-> "syntax",   keywords |-> << <<"syntax", SP, "error">>, <<"unexpected", SP, "token">>, <<"expected">> >>],
  [name |-> "runtime",  keywords |-> << <<"null", SP, "reference">>, <<"index", SP, "out", SP, "of", SP, "bounds">>, <<"division", SP, "by", SP, "zero">> >>],
  [name |-> "scene",    keywords |-> << <<"scene", SP, "not", SP, "found">>, <<"node", SP, "not", SP, "found">>, <<"invalid", SP, "scene">> >>],
  [name |-> "resource", keywords |-> << <<"resource", SP, "not", SP, "found">>, <<"failed", SP, "to", SP, "load">>, <<"missing", SP, "resource">> >>],
  [name |-> "network",  keywords |-> << <<"connection", SP, "failed">>, <<"timeout">>, <<"network", SP, "error">> >>],
  [name |-> "audio",    keywords |-> << <<"audio">>, <<"sound">>, <<"music">> >>],
  [name |-> "physics",  keywords |-> << <<"collision">>, <<"physics">>, <<"rigidbody">> >>],
  [name |-> "input",    keywords |-> << <<"input">>, <<"mouse">>, <<"keyboard">> >>] >>

\* pairs <<w, k>> of distinct tokens of the model's alphabet where k occurs inside w
TokenInfix == { <<"unexpected", "expected">>, <<"'null", "null">> }

\* String.prototype.includes: keyword kw occurs in the text s
includes(s, kw) ==
  \E i \in 1..(Len(s) - Len(kw) + 1) :
    \A j \in 1..Len(kw) :
      \/ s[i + j - 1] = kw[j]
      \/ Len(kw) = 1 /\ <<s[i + j - 1], kw[j]>> \in TokenInfix

categorizeErrorLastWins(message) ==
  LET lowerMessage == toLowerCase(message)
      hit(c) == \E k \in 1..Len(Categories[c].keywords) :
                  includes(lowerMessage, Categories[c].keywords[k])
      Hits == { c \in 1..Len(Categories) : hit(c) }
  IN  IF Hits = {} THEN "general"
      ELSE Categories[CHOOSE c \in Hits : \A d \in Hits : c >= d].name

categorizeError(message) ==
  LET lowerMessage == toLowerCase(message)
      hit(c) == \E k \in 1..Len(Categories[c].keywords) :
                  includes(lowerMessage, Categories[c].keywords[k])
      Hits == { c \in 1..Len(Categories) : hit(c) }
  IN  IF Hits = {} THEN "general"
      ELSE Categories[CHOOSE c \in Hits : \A d \in Hits : c <= d].name

(***************************************************************************)
(* createErrorFromMatch, parseLogLine, parseLogContent.                    *)
(* An event is [type, message, file, line, category]; file <<>> and line   *)
(* NoLine stand for an unset field.  The timestamp field is left out: no   *)
(* operation reads it.                                                     *)
(***************************************************************************)
Event(ty, msg, file, line) ==
  [type |-> ty, message |-> msg, file |-> file, line |-> line,
   category |-> categorizeError(msg)]

createErrorFromMatch(match, originalLine) ==
  IF Head(match.m0) = "ERROR:"
    THEN Event("error", match.m1, match.m2,
               IF match.m3 # <<>> THEN parseInt(match.m3) ELSE NoLine)
  ELSE IF Head(match.m0) = "WARNING:"
    THEN Event("warning", match.m1, match.m2,
               IF match.m3 # <<>> THEN parseInt(match.m3) ELSE NoLine)
  ELSE IF match.m1 # <<>> /\ Last(match.m1) \in GdTokens
    THEN Event("error", match.m3, match.m1, parseInt(match.m2))
  ELSE Event(IF match.m1 # <<>> THEN LowerTok(Head(match.m1)) ELSE "error",
             IF match.m2 # <<>> THEN match.m2 ELSE originalLine, <<>>, NoLine)

parseLogLineKeepAll(line) ==
  LET trimmed == trim(line)
      patterns == << matchLocated(trimmed, "ERROR:"), matchLocated(trimmed, "WARNING:"),
                     matchScript(trimmed), matchGeneral(trimmed) >>
      Hits == { p \in 1..4 : patterns[p] # NoMatch }
  IN  IF trimmed = <<>> THEN <<>>
      ELSE IF Hits = {} THEN <<Event("error", trimmed, <<>>, NoLine)>>
      ELSE <<createErrorFromMatch(patterns[CHOOSE p \in Hits : \A q \in Hits : p <= q][1],
                                  trimmed)>>

parseLogLineLastMatch(line) ==
  LET trimmed == trim(line)
      patterns == << matchLocated(trimmed, "ERROR:"), matchLocated(trimmed, "WARNING:"),
                     matchScript(trimmed), matchGeneral(trimmed) >>
      Hits == { p \in 1..4 : patterns[p] # NoMatch }
  IN  IF trimmed = <<>> \/ Hits = {} THEN <<>>
      ELSE <<createErrorFromMatch(patterns[CHOOSE p \in Hits : \A q \in Hits : p >= q][1],
                                  trimmed)>>

\* <<>> for null, <<event>> otherwise
parseLogLine(line) ==
  LET trimmed == trim(line)
      patterns == << matchLocated(trimmed, "ERROR:"), matchLocated(trimmed, "WARNING:"),
                     matchScript(trimmed), matchGeneral(trimmed) >>
      Hits == { p \in 1..4 : patterns[p] # NoMatch }
  IN  IF trimmed = <<>> \/ Hits = {} THEN <<>>
      ELSE <<createErrorFromMatch(patterns[CHOOSE p \in Hits : \A q \in Hits : p <= q][1],
                                  trimmed)>>

RECURSIVE parseLines(_)
parseLines(lines) ==
  IF lines = <<>> THEN <<>>
  ELSE parseLogLine(Head(lines)) \o parseLines(Tail(lines))

parseLogContent(content) == parseLines(split(content))

(***************************************************************************)
(* The debug-session registry and the child processes.                     *)
(*                                                                         *)
(* Every startDebugSession call that passes the duplicate check creates    *)
(* one session object; call k, the session object it created, the process  *)
(* it spawned (if any) and the data a successful stop returned for that     *)
(* object share the index k.  A closure of process k holds the session     *)
(* object it looked up at launch, procs[k].session.                        *)
(*                                                                         *)
(* A handler is an operator from the state (and its inputs) to the state   *)
(* it leaves and the envelope it returns; an action applies one handler.   *)
(***************************************************************************)
VARIABLES activeSessions, godotProcesses, sessions, calls, procs, snapshots, now,
          input, output

vars == <<activeSessions, godotProcesses, sessions, calls, procs, snapshots, now,
          input, output>>

\* input and output hold the argument and the result of a call of one of the
\* analysis tools, which read and write no field of the object
NoOutput == [op |-> "none"]

ExplicitIds == {"a"}
GeneratedIds == {"debug_0"}
Keys == ExplicitIds \cup GeneratedIds
NoId == ""
Absent == 0

possibleNames == <<"godot", "godot.exe", "Godot", "Godot.exe">>
NoPath == ""
NullCode == -1
\* what result.exitCode reads right after spawn('which', [name]), one entry per
\* candidate name; "throw" when spawn raises
WhichRuns ==
  { <<"null", "null", "null", "null">>,
    <<"zero", "null", "zero", "throw">>,
    <<"throw", "nonzero", "zero", "zero">> }

LineError == <<"ERROR:", SP, "Null", SP, "reference", SP, "at:", SP, "Player.gd", COLON, "45">>
LineWarning == <<"WARNING:", SP, "Audio", SP, "at:", SP, "Player.gd", COLON, "7">>
LineInfo == <<"INFO:", SP, "hello">>
LineNoise == <<"hello">>

\* the chunks a stream delivers in the model
RecentChunks == { LineError, LineWarning \o <<NL>> \o LineError \o <<NL>> }

StreamChunks == RecentChunks \cup { LineInfo \o <<NL>> \o LineNoise \o <<NL>> }

\* parseLogContent tabulated over the model's chunks
Parsed == [c \in StreamChunks |-> parseLogContent(c)]

IsError(e) == e.type = "error"
IsWarning(e) == e.type = "warning"

\* the state as one value
State ==
  [activeSessions |-> activeSessions, godotProcesses |-> godotProcesses,
   sessions |-> sessions, calls |-> calls, procs |-> procs,
   snapshots |-> snapshots, now |-> now]

Apply(st) ==
  /\ activeSessions' = st.activeSessions
  /\ godotProcesses' = st.godotProcesses
  /\ sessions' = st.sessions
  /\ calls' = st.calls
  /\ procs' = st.procs
  /\ snapshots' = st.snapshots
  /\ now' = st.now
  /\ UNCHANGED <<input, output>>

\* the envelope {success, data}; lists of a spread session are those of object obj
NoData ==
  [success |-> FALSE, pending |-> FALSE, sessionId |-> NoId, obj |-> Absent,
   status |-> "", startTime |-> 0, endTime |-> -1, duration |-> 0,
   totalErrors |-> 0, totalWarnings |-> 0, isActive |-> FALSE,
   recentErrors |-> <<>>, recentWarnings |-> <<>>]

Failure == NoData
\* the call is suspended at an await and has returned nothing yet
Pending == [NoData EXCEPT !.pending = TRUE]

NoSnapshot == [taken |-> FALSE, data |-> NoData]

Init ==
  /\ activeSessions = [k \in Keys |-> Absent]
  /\ godotProcesses = [k \in Keys |-> Absent]
  /\ sessions = <<>>
  /\ calls = <<>>
  /\ procs = <<>>
  /\ snapshots = <<>>
  /\ now = 0
  /\ input = <<>>
  /\ output = NoOutput

\* findGodotExecutable: the first candidate whose 'which' reads exit code 0 at once
findGodotExecutable(outcome) ==
  LET Found == { i \in 1..Len(possibleNames) : outcome[i] = "zero" }
  IN  IF Found = {} THEN NoPath
      ELSE possibleNames[CHOOSE i \in Found : \A j \in Found : i <= j]

\* sessionId || this.generateSessionId()
SessionIdOr(sessionId, generated) == IF sessionId # NoId THEN sessionId ELSE generated

\* the body of startDebugSession from the creation of the session up to the first
\* suspension (await findGodotExecutable inside startGodotWithLogging).  date is
\* what new Date() reads.
createSession(st, id, outcome, date) ==
  LET k == Len(st.sessions) + 1
  IN  [st |-> [st EXCEPT
                 !.sessions = Append(@,
                     [id |-> id, startTime |-> date, endTime |-> -1, errors |-> <<>>,
                      warnings |-> <<>>, status |-> "running"]),
                 !.activeSessions[id] = k,
                 !.calls = Append(@,
                     [pc |-> "lookup", id |-> id,
                      godotPath |-> findGodotExecutable(outcome),
                      process |-> Absent, response |-> Pending]),
                 !.procs = Append(@,
                     [spawned |-> FALSE, session |-> Absent, killed |-> FALSE,
                      exited |-> FALSE]),
                 !.snapshots = Append(@, NoSnapshot),
                 !.now = date],
       response |-> Pending]

startDebugSessionNoCheck(st, sessionId, generated, outcome, date) ==
  createSession(st, SessionIdOr(sessionId, generated), outcome, date)

\* startDebugSession up to the first suspension; a duplicate id returns at once
startDebugSession(st, sessionId, generated, outcome, date) ==
  LET id == SessionIdOr(sessionId, generated)
  IN  IF st.activeSessions[id] # Absent
      THEN [st |-> st, response |-> Failure]
      ELSE createSession(st, id, outcome, date)

\* startGodotWithLogging after its await: spawn, look the session up, attach the
\* callbacks; its local godotPath ends with it
startGodotWithLogging(st, k, spawnThrows) ==
  LET sessionId == st.calls[k].id
      session == st.activeSessions[sessionId]
      done == [st EXCEPT !.calls[k].pc = "launched", !.calls[k].godotPath = NoPath]
  IN  IF st.calls[k].godotPath = NoPath \/ spawnThrows
      THEN [done EXCEPT !.calls[k].process = Absent]
      ELSE IF session = Absent
      THEN [done EXCEPT !.procs[k].spawned = TRUE, !.calls[k].process = Absent]
      ELSE [done EXCEPT !.procs[k].spawned = TRUE, !.procs[k].session = session,
                        !.calls[k].process = k]

\* startDebugSession after await startGodotWithLogging: store the handle, return
startDebugSessionReturn(st, k) ==
  LET response == [NoData EXCEPT
                     !.success = TRUE, !.sessionId = st.calls[k].id, !.obj = k,
                     !.startTime = st.sessions[k].startTime,
                     !.status = st.sessions[k].status]
      stored == IF st.calls[k].process # Absent
                THEN [st EXCEPT !.godotProcesses[st.calls[k].id] = st.calls[k].process]
                ELSE st
  IN  [st |-> [stored EXCEPT !.calls[k].pc = "returned", !.calls[k].process = Absent,
                             !.calls[k].response = response],
       response |-> response]

stopDebugSessionKeepHandle(st, sessionId, date) ==
  LET session == st.activeSessions[sessionId]
      process == st.godotProcesses[sessionId]
      sessionData == [NoData EXCEPT
                        !.success = TRUE, !.sessionId = st.sessions[session].id,
                        !.obj = session,
                        !.status = "stopped",
                        !.startTime = st.sessions[session].startTime,
                        !.endTime = date,
                        !.duration = date - st.sessions[session].startTime,
                        !.totalErrors = Len(st.sessions[session].errors),
                        !.totalWarnings = Len(st.sessions[session].warnings)]
      killed == IF process # Absent
                THEN [st EXCEPT !.procs[process].killed = TRUE]
                ELSE st
  IN  IF session = Absent
      THEN [st |-> st, response |-> Failure]
      ELSE [st |-> [killed EXCEPT
                      !.sessions[session].endTime = date,
                      !.sessions[session].status = "stopped",
                      !.activeSessions[sessionId] = Absent,
                      !.snapshots[session] = [taken |-> TRUE, data |-> sessionData],
                      !.now = date],
            response |-> sessionData]

stopDebugSession(st, sessionId, date) ==
  LET session == st.activeSessions[sessionId]
      process == st.godotProcesses[sessionId]
      sessionData == [NoData EXCEPT
                        !.success = TRUE, !.sessionId = st.sessions[session].id,
                        !.obj = session,
                        !.status = "stopped",
                        !.startTime = st.sessions[session].startTime,
                        !.endTime = date,
                        !.duration = date - st.sessions[session].startTime,
                        !.totalErrors = Len(st.sessions[session].errors),
                        !.totalWarnings = Len(st.sessions[session].warnings)]
      killed == IF process # Absent
                THEN [st EXCEPT !.procs[process].killed = TRUE,
                                !.godotProcesses[sessionId] = Absent]
                ELSE st
  IN  IF session = Absent
      THEN [st |-> st, response |-> Failure]
      ELSE [st |-> [killed EXCEPT
                      !.sessions[session].endTime = date,
                      !.sessions[session].status = "stopped",
                      !.activeSessions[sessionId] = Absent,
                      !.snapshots[session] = [taken |-> TRUE, data |-> sessionData],
                      !.now = date],
            response |-> sessionData]

RecentCount == 10

\* Array.prototype.slice(-count)
sliceFirst(s, count) == SubSeq(s, 1, IF Len(s) > count THEN count ELSE Len(s))

sliceLast(s, count) == SubSeq(s, IF Len(s) > count THEN Len(s) - count + 1 ELSE 1, Len(s))

getDebugSessionNoCheck(st, sessionId) ==
  [st |-> st, response |-> [NoData EXCEPT !.success = TRUE, !.sessionId = sessionId]]

getDebugSession(st, sessionId) ==
  LET session == st.activeSessions[sessionId]
  IN  IF session = Absent
      THEN [st |-> st, response |-> Failure]
      ELSE [st |-> st,
            response |-> [NoData EXCEPT
                !.success = TRUE, !.sessionId = st.sessions[session].id, !.obj = session,
                !.status = st.sessions[session].status,
                !.startTime = st.sessions[session].startTime,
                !.endTime = st.sessions[session].endTime,
                !.isActive = (st.sessions[session].status = "running"),
                !.recentErrors = sliceLast(st.sessions[session].errors, RecentCount),
                !.recentWarnings = sliceLast(st.sessions[session].warnings, RecentCount)]]

stdoutDataSecondPushOnly(st, p, chunk) ==
  LET session == st.procs[p].session
      errors == Parsed[chunk]
  IN  [st EXCEPT !.sessions[session].warnings = @ \o SelectSeq(errors, IsWarning)]

stdoutDataUnshift(st, p, chunk) ==
  LET session == st.procs[p].session
      errors == Parsed[chunk]
  IN  [st EXCEPT !.sessions[session].errors = SelectSeq(errors, IsError) \o @,
                 !.sessions[session].warnings = SelectSeq(errors, IsWarning) \o @]

\* process.stdout 'data' callback of process p
stdoutData(st, p, chunk) ==
  LET session == st.procs[p].session
      errors == Parsed[chunk]
  IN  [st EXCEPT !.sessions[session].errors = @ \o SelectSeq(errors, IsError),
                 !.sessions[session].warnings = @ \o SelectSeq(errors, IsWarning)]

stderrDataErrorsOnly(st, p, chunk) ==
  LET session == st.procs[p].session
      errors == Parsed[chunk]
  IN  [st EXCEPT !.sessions[session].errors = @ \o SelectSeq(errors, IsError)]

\* process.stderr 'data' callback of process p
stderrData(st, p, chunk) ==
  LET session == st.procs[p].session
      errors == Parsed[chunk]
  IN  [st EXCEPT !.sessions[session].errors = @ \o errors]

onExitRemoves(st, p, code) ==
  LET session == st.procs[p].session
      sessionId == st.sessions[session].id
  IN  [st EXCEPT !.sessions[session].status = IF code # 0 THEN "crashed" ELSE "stopped",
                 !.procs[p].exited = TRUE,
                 !.activeSessions[sessionId] = IF @ = session THEN Absent ELSE @]

\* process 'exit' callback of process p; code NullCode when a signal ended the process
onExit(st, p, code) ==
  LET session == st.procs[p].session
  IN  [st EXCEPT !.sessions[session].status = IF code # 0 THEN "crashed" ELSE "stopped",
                 !.procs[p].exited = TRUE]

(***************************************************************************)
(* The actions: what callers and child processes can do, and when.         *)
(***************************************************************************)
\* a callback of a child process runs as its own task: no call is between two awaits
Quiescent == \A k \in 1..Len(calls) : calls[k].pc = "returned"

\* callbacks are attached to process p
Attached(p) == procs[p].spawned /\ procs[p].session # Absent

RECURSIVE Stored(_)
Stored(k) ==
  IF k = 0 THEN 0
  ELSE Len(sessions[k].errors) + Len(sessions[k].warnings) + Stored(k - 1)

\* the events of all sessions stay within the model's bound after chunk's events are added
Fits(chunk) == Stored(Len(sessions)) + Len(Parsed[chunk]) <= MaxList

\* the exit codes process p can report
ExitCodes(p) == IF procs[p].killed THEN {0, 1, NullCode} ELSE {0, 1}

\* the readings new Date() can give to a call on id; a call that fails reads none
Dates(id, reads) == IF reads THEN now..MaxTime ELSE {now}

Start ==
  \E sessionId \in ExplicitIds \cup {NoId}, generated \in GeneratedIds :
    LET id == SessionIdOr(sessionId, generated)
        fresh == activeSessions[id] = Absent
    IN  \E outcome \in IF fresh THEN WhichRuns ELSE {<<"null", "null", "null", "null">>},
           date \in Dates(id, fresh) :
          /\ fresh => Len(calls) < MaxCalls
          /\ Apply(startDebugSession(State, sessionId, generated, outcome, date).st)

Launch ==
  \E k \in 1..Len(calls), spawnThrows \in BOOLEAN :
    /\ calls[k].pc = "lookup"
    /\ Apply(startGodotWithLogging(State, k, spawnThrows))

StartReturn ==
  \E k \in 1..Len(calls) :
    /\ calls[k].pc = "launched"
    /\ Apply(startDebugSessionReturn(State, k).st)

Stop ==
  \E sessionId \in Keys : \E date \in Dates(sessionId, activeSessions[sessionId] # Absent) :
    Apply(stopDebugSession(State, sessionId, date).st)

Get == \E sessionId \in Keys : Apply(getDebugSession(State, sessionId).st)

Stdout ==
  \E p \in 1..Len(procs), chunk \in StreamChunks :
    /\ Quiescent /\ Attached(p) /\ Fits(chunk)
    /\ Apply(stdoutData(State, p, chunk))

Stderr ==
  \E p \in 1..Len(procs), chunk \in StreamChunks :
    /\ Quiescent /\ Attached(p) /\ Fits(chunk)
    /\ Apply(stderrData(State, p, chunk))

Exit ==
  \E p \in 1..Len(procs) : \E code \in ExitCodes(p) :
    /\ Quiescent /\ Attached(p) /\ ~procs[p].exited
    /\ Apply(onExit(State, p, code))

Next == Start \/ Launch \/ StartReturn \/ Stop \/ Get \/ Stdout \/ Stderr \/ Exit

Spec == Init /\ [][Next]_vars

(***************************************************************************)
(* One session whose streams deliver many chunks: the lists outgrow what   *)
(* getDebugSession returns.                                                *)
(***************************************************************************)
InitState ==
  [activeSessions |-> [k \in Keys |-> Absent], godotProcesses |-> [k \in Keys |-> Absent],
   sessions |-> <<>>, calls |-> <<>>, procs |-> <<>>, snapshots |-> <<>>, now |-> 0]

\* the state after startDebugSession('a') has run to its return with a process
Started ==
  LET begun == startDebugSession(InitState, "a", "debug_0",
                                 <<"zero", "null", "zero", "throw">>, 0).st
  IN  startDebugSessionReturn(startGodotWithLogging(begun, 1, FALSE), 1).st

InitRecent ==
  /\ activeSessions = Started.activeSessions
  /\ godotProcesses = Started.godotProcesses
  /\ sessions = Started.sessions
  /\ calls = Started.calls
  /\ procs = Started.procs
  /\ snapshots = Started.snapshots
  /\ now = Started.now
  /\ input = <<>>
  /\ output = NoOutput

\* each list of each session of st is within the bound
WithinRecent(st) ==
  \A k \in 1..Len(st.sessions) :
    Len(st.sessions[k].errors) <= MaxRecent /\ Len(st.sessions[k].warnings) <= MaxRecent

StdoutRecent ==
  \E p \in 1..Len(procs), chunk \in RecentChunks :
    /\ Quiescent /\ Attached(p) /\ WithinRecent(stdoutData(State, p, chunk))
    /\ Apply(stdoutData(State, p, chunk))

StderrRecent ==
  \E p \in 1..Len(procs), chunk \in RecentChunks :
    /\ Quiescent /\ Attached(p) /\ WithinRecent(stderrData(State, p, chunk))
    /\ Apply(stderrData(State, p, chunk))

GetRecent == \E sessionId \in Keys : Apply(getDebugSession(State, sessionId).st)

NextRecent == StdoutRecent \/ StderrRecent \/ GetRecent

SpecRecent == InitRecent /\ [][NextRecent]_vars

(***************************************************************************)
(* Properties of the session manager.                                      *)
(***************************************************************************)
Objs == 1..Len(sessions)

IsPrefix(s, t) == Len(s) <= Len(t) /\ SubSeq(t, 1, Len(s)) = s

C2_DuplicateStartFails ==
  \A sessionId \in ExplicitIds, generated \in GeneratedIds, outcome \in WhichRuns,
     date \in now..MaxTime :
    activeSessions[sessionId] # Absent =>
      LET r == startDebugSession(State, sessionId, generated, outcome, date)
      IN  /\ ~r.response.success /\ ~r.response.pending
          /\ r.st.activeSessions = activeSessions
          /\ r.st.sessions = sessions
          /\ r.st.godotProcesses = godotProcesses
          /\ r.st = State

\* an explicit id is active, its start has returned, its process fed it events
C2_Witness ==
  \E sessionId \in ExplicitIds :
    /\ activeSessions[sessionId] # Absent
    /\ calls[activeSessions[sessionId]].pc = "returned"
    /\ godotProcesses[sessionId] # Absent
    /\ sessions[activeSessions[sessionId]].errors # <<>>

\* C3: stopDebugSession and getDebugSession with an id that is not in the
\* active-session map return {success: false} and change neither the
\* active-session map nor the process-handle map nor any session.
C3_AbsentIdFails ==
  \A sessionId \in Keys, date \in now..MaxTime :
    activeSessions[sessionId] = Absent =>
      LET s == stopDebugSession(State, sessionId, date)
          g == getDebugSession(State, sessionId)
      IN  /\ ~s.response.success /\ ~g.response.success
          /\ s.st.activeSessions = activeSessions /\ g.st.activeSessions = activeSessions
          /\ s.st.godotProcesses = godotProcesses /\ g.st.godotProcesses = godotProcesses
          /\ s.st.sessions = sessions /\ g.st.sessions = sessions

\* one id was stopped and is absent, never restarted; another session is active
\* with a process handle and events
C3_Witness ==
  \E sessionId \in Keys, other \in Keys :
    /\ activeSessions[sessionId] = Absent
    /\ \E k \in Objs : sessions[k].id = sessionId /\ snapshots[k].taken
    /\ activeSessions[other] # Absent
    /\ godotProcesses[other] # Absent
    /\ sessions[activeSessions[other]].errors # <<>>

\* C4: a successful stopDebugSession(id) returns a snapshot with status stopped,
\* endTime set and duration = endTime - startTime >= 0; in the state it leaves,
\* id is absent from the active-session map and from the process-handle map, a
\* following getDebugSession(id) fails and a following startDebugSession(id)
\* with the same id runs to a successful return with id active again.
C4_StopSnapshot ==
  \A sessionId \in Keys, date \in now..MaxTime :
    activeSessions[sessionId] # Absent =>
      LET r == stopDebugSession(State, sessionId, date)
          startTime == sessions[activeSessions[sessionId]].startTime
      IN  /\ r.response.success
          /\ r.response.status = "stopped"
          /\ r.response.endTime = date
          /\ r.response.duration = r.response.endTime - startTime
          /\ r.response.duration >= 0
          /\ r.st.activeSessions[sessionId] = Absent
          /\ r.st.godotProcesses[sessionId] = Absent
          /\ ~getDebugSession(r.st, sessionId).response.success
          /\ \A generated \in GeneratedIds, outcome \in WhichRuns, spawnThrows \in BOOLEAN :
                LET again == startDebugSession(r.st, sessionId, generated, outcome, date)
                    k == Len(again.st.calls)
                    back == startDebugSessionReturn(
                              startGodotWithLogging(again.st, k, spawnThrows), k)
                IN  /\ again.response.pending
                    /\ back.response.success
                    /\ back.response.sessionId = sessionId
                    /\ back.st.activeSessions[sessionId] = k

\* a session was stopped after time had passed, its process was killed, and its id
\* is in use again by a later session
C4_Witness ==
  \E k \in Objs :
    /\ snapshots[k].taken
    /\ snapshots[k].data.duration > 0
    /\ procs[k].killed
    /\ activeSessions[sessions[k].id] \notin {Absent, k}

C10_LaunchFailureIsSoft ==
  \A k \in 1..Len(calls) :
    (calls[k].pc = "launched" /\ ~procs[k].spawned) =>
      LET r == startDebugSessionReturn(State, k)
      IN  /\ r.response.success
          /\ r.response.status = "running"
          /\ r.st.activeSessions[calls[k].id] = k
          /\ r.st.sessions[k].errors = <<>> /\ r.st.sessions[k].warnings = <<>>
          /\ r.st.godotProcesses[calls[k].id] = Absent

CountType(s, ty) == Cardinality({ i \in DOMAIN s : s[i].type = ty })

\* what a list gained between old and new
Added(old, new) == SubSeq(new, Len(old) + 1, Len(new))

\* C7: a stderr chunk appends every parsed event of every severity to the
\* session's errors list and nothing to warnings; a stdout chunk appends only
\* its error-kind events to errors and only its warning-kind events to
\* warnings, and drops info-kind events; the warnings list contains only
\* warning-kind events in every reachable state.
C7_Routing ==
  /\ \A k \in Objs : CountType(sessions[k].warnings, "warning") = Len(sessions[k].warnings)
  /\ \A p \in 1..Len(procs), chunk \in StreamChunks :
        Attached(p) =>
          LET old == sessions[procs[p].session]
              events == parseLogContent(chunk)
              err == stderrData(State, p, chunk).sessions[procs[p].session]
              out == stdoutData(State, p, chunk).sessions[procs[p].session]
          IN  /\ err.errors = old.errors \o events
              /\ err.warnings = old.warnings
              /\ IsPrefix(old.errors, out.errors)
              /\ IsPrefix(old.warnings, out.warnings)
              /\ \A ty \in {"error", "warning", "info"} :
                    /\ CountType(Added(old.errors, out.errors), ty) =
                         IF ty = "error" THEN CountType(events, ty) ELSE 0
                    /\ CountType(Added(old.warnings, out.warnings), ty) =
                         IF ty = "warning" THEN CountType(events, ty) ELSE 0

\* stderr delivered a warning line: a warning-kind event is in an errors list
C7_Witness ==
  \E k \in Objs : \E i \in DOMAIN sessions[k].errors :
    sessions[k].errors[i].type = "warning"

\* the events of each line of each chunk, line by line
LineParsed ==
  [c \in StreamChunks |-> [i \in 1..Len(split(c)) |-> parseLogLine(split(c)[i])]]

\* added holds events of distinct lines of chunk, in line order
InLineOrder(added, chunk) ==
  \E f \in [1..Len(added) -> 1..Len(LineParsed[chunk])] :
    /\ \A i, j \in 1..Len(added) : i < j => f[i] < f[j]
    /\ \A i \in 1..Len(added) : LineParsed[chunk][f[i]] = <<added[i]>>

\* C8: the lists of a session are append-only, and what one step adds to a
\* list are events of one chunk in line order, placed after everything that
\* arrived before.
C8_AppendOnlyInOrder ==
  [][\A k \in Objs :
       /\ IsPrefix(sessions[k].errors, sessions'[k].errors)
       /\ IsPrefix(sessions[k].warnings, sessions'[k].warnings)
       /\ \E chunk \in StreamChunks :
            /\ InLineOrder(Added(sessions[k].errors, sessions'[k].errors), chunk)
            /\ InLineOrder(Added(sessions[k].warnings, sessions'[k].warnings), chunk)]_vars

\* an info event of one chunk is followed by an error event of a later chunk
C8_Witness ==
  \E k \in Objs :
    /\ Len(sessions[k].errors) = 2
    /\ sessions[k].errors[1].type = "info"
    /\ sessions[k].errors[2].type = "error"

Min(a, b) == IF a < b THEN a ELSE b

\* C9: getDebugSession on an active session returns as recentErrors the last
\* min(10, n) entries of the errors list and as recentWarnings the last
\* min(10, m) entries of the warnings list, in insertion order, and modifies
\* nothing.
C9_RecentTail ==
  \A sessionId \in Keys :
    activeSessions[sessionId] # Absent =>
      LET r == getDebugSession(State, sessionId)
          session == sessions[activeSessions[sessionId]]
          n == Len(session.errors)
          m == Len(session.warnings)
          e == Min(RecentCount, n)
          w == Min(RecentCount, m)
      IN  /\ r.response.success
          /\ Len(r.response.recentErrors) = e
          /\ \A i \in 1..e : r.response.recentErrors[i] = session.errors[n - e + i]
          /\ Len(r.response.recentWarnings) = w
          /\ \A i \in 1..w : r.response.recentWarnings[i] = session.warnings[m - w + i]
          /\ r.st = State

\* both lists are longer than what is returned, and errors holds events of two kinds
C9_Witness ==
  \E k \in Objs :
    /\ activeSessions[sessions[k].id] = k
    /\ Len(sessions[k].errors) > RecentCount
    /\ Len(sessions[k].warnings) > RecentCount
    /\ sessions[k].errors[1].type = "warning"

IsSuffix(s, t) == Len(s) <= Len(t) /\ SubSeq(t, Len(t) - Len(s) + 1, Len(t)) = s

\* what one whole chunk adds to <<errors, warnings>>: through stderr, through stdout
Contributions ==
  { <<parseLogContent(c), <<>> >> : c \in StreamChunks } \cup
  { <<SelectSeq(parseLogContent(c), IsError), SelectSeq(parseLogContent(c), IsWarning)>> :
      c \in StreamChunks }

\* the two lists are made of whole chunks, each applied to both lists
RECURSIVE WholeChunks(_, _)
WholeChunks(e, w) ==
  \/ e = <<>> /\ w = <<>>
  \/ \E c \in Contributions :
       /\ c # << <<>>, <<>> >>
       /\ IsSuffix(c[1], e) /\ IsSuffix(c[2], w)
       /\ WholeChunks(SubSeq(e, 1, Len(e) - Len(c[1])), SubSeq(w, 1, Len(w) - Len(c[2])))

\* C11: what getDebugSession and stopDebugSession observe of a session is
\* never a chunk half-applied: the lists they read are made of whole chunks,
\* each with all its events in errors and in warnings, and the snapshot shows
\* exactly these lists.
C11_WholeChunksObserved ==
  \A sessionId \in Keys :
    activeSessions[sessionId] # Absent =>
      LET session == sessions[activeSessions[sessionId]]
          g == getDebugSession(State, sessionId).response
          s == stopDebugSession(State, sessionId, now).response
      IN  /\ WholeChunks(session.errors, session.warnings)
          /\ IsSuffix(g.recentErrors, session.errors)
          /\ IsSuffix(g.recentWarnings, session.warnings)
          /\ Len(g.recentErrors) = Min(RecentCount, Len(session.errors))
          /\ Len(g.recentWarnings) = Min(RecentCount, Len(session.warnings))
          /\ s.totalErrors = Len(session.errors)
          /\ s.totalWarnings = Len(session.warnings)

\* an active session was fed one stdout chunk that has an error and a warning
C11_Witness ==
  \E k \in Objs :
    /\ activeSessions[sessions[k].id] = k
    /\ Len(sessions[k].errors) = 1 /\ sessions[k].errors[1].type = "error"
    /\ Len(sessions[k].warnings) = 1

\* st has every entry of the active-session map
Kept(st) ==
  \A id \in Keys : activeSessions[id] # Absent => st.activeSessions[id] = activeSessions[id]

\* C25: a session leaves the active-session map only by a successful
\* stopDebugSession of its id: a start and its continuations, getDebugSession,
\* the stream and exit callbacks and a failed stop remove no entry, and a
\* successful stop removes only its own; a session whose process has exited
\* is still returned by getDebugSession, with isActive false, and a start
\* with its id fails as a duplicate.
C25_RemovedOnlyByStop ==
  /\ \A sessionId \in ExplicitIds \cup {NoId}, generated \in GeneratedIds,
        outcome \in WhichRuns, date \in now..MaxTime :
        Kept(startDebugSession(State, sessionId, generated, outcome, date).st)
  /\ \A k \in 1..Len(calls) :
        /\ calls[k].pc = "lookup" =>
              \A spawnThrows \in BOOLEAN : Kept(startGodotWithLogging(State, k, spawnThrows))
        /\ calls[k].pc = "launched" => Kept(startDebugSessionReturn(State, k).st)
  /\ \A sessionId \in Keys :
        /\ Kept(getDebugSession(State, sessionId).st)
        /\ \A date \in now..MaxTime :
              LET s == stopDebugSession(State, sessionId, date)
              IN  /\ ~s.response.success => Kept(s.st)
                  /\ \A other \in Keys \ {sessionId} :
                        s.st.activeSessions[other] = activeSessions[other]
  /\ \A p \in 1..Len(procs) :
        Attached(p) =>
          /\ \A chunk \in StreamChunks :
                Kept(stdoutData(State, p, chunk)) /\ Kept(stderrData(State, p, chunk))
          /\ \A code \in {0, 1, NullCode} : Kept(onExit(State, p, code))
  /\ \A sessionId \in Keys :
        LET session == activeSessions[sessionId]
        IN  (session # Absent /\ sessions[session].status # "running") =>
              /\ getDebugSession(State, sessionId).response.success
              /\ getDebugSession(State, sessionId).response.obj = session
              /\ ~getDebugSession(State, sessionId).response.isActive
              /\ \A generated \in GeneratedIds, outcome \in WhichRuns, date \in now..MaxTime :
                    ~startDebugSession(State, sessionId, generated, outcome, date)
                       .response.success

\* the process of a session has exited with a non-zero code and the session is
\* still in the map, marked crashed
C25_Witness ==
  \E sessionId \in Keys :
    LET session == activeSessions[sessionId]
    IN  /\ session # Absent
        /\ sessions[session].status = "crashed"
        /\ \E p \in 1..Len(procs) : procs[p].exited /\ procs[p].session = session

C28_SuccessMeansRunning ==
  \A k \in 1..Len(calls) :
    calls[k].pc = "launched" =>
      LET r == startDebugSessionReturn(State, k)
      IN  r.response.success =>
            /\ r.st.activeSessions[r.response.sessionId] = k
            /\ r.response.status = "running"

LineScript == <<"Player.gd", COLON, "7", COLON, SP, "unexpected", SP, "token">>
LineBlank == <<SP>>
LineGeneralError == <<"ERROR:", SP, "timeout">>
LineMixed ==
  <<SP, "WARNING:", SP, "Input", SP, "Null", SP, "reference", SP, "at:", SP,
    "res", COLON, "//a.gd", COLON, "45", SP>>
LineBoth ==
  <<"ERROR:", SP, "Player.gd", COLON, "45", COLON, SP, "Audio", SP, "at:", SP,
    "Player.gd", COLON, "7">>

ParseLineSet ==
  { LineError, LineWarning, LineScript, LineInfo, LineNoise, <<>>, LineBlank,
    LineGeneralError, LineMixed, LineBoth }

\* lines joined by line feeds
RECURSIVE JoinLines(_)
JoinLines(ls) ==
  IF ls = <<>> THEN <<>>
  ELSE IF Len(ls) = 1 THEN ls[1]
  ELSE ls[1] \o <<NL>> \o JoinLines(Tail(ls))

LogTexts == { JoinLines(ls) : ls \in UNION { [1..n -> ParseLineSet] : n \in 0..MaxLines } }

\* no session exists
NoSessions ==
  /\ activeSessions = InitState.activeSessions
  /\ godotProcesses = InitState.godotProcesses
  /\ sessions = InitState.sessions
  /\ calls = InitState.calls
  /\ procs = InitState.procs
  /\ snapshots = InitState.snapshots
  /\ now = InitState.now

sessionVars == <<activeSessions, godotProcesses, sessions, calls, procs, snapshots, now>>

InitParse == NoSessions /\ input \in LogTexts /\ output = NoOutput

ParseLog ==
  /\ output = NoOutput
  /\ output' = [op |-> "parseLogContent", errors |-> parseLogContent(input)]
  /\ UNCHANGED <<sessionVars, input>>

Categorize ==
  /\ output = NoOutput
  /\ output' = [op |-> "categorizeError", category |-> categorizeError(input)]
  /\ UNCHANGED <<sessionVars, input>>

NextParse == ParseLog \/ Categorize

SpecParse == InitParse /\ [][NextParse]_vars

\* the trimmed line matches one of the four patterns
Shaped(line) ==
  /\ trim(line) # <<>>
  /\ \/ matchLocated(trim(line), "ERROR:") # NoMatch
     \/ matchLocated(trim(line), "WARNING:") # NoMatch
     \/ matchScript(trim(line)) # NoMatch
     \/ matchGeneral(trim(line)) # NoMatch

ClosedCategories ==
  {"syntax", "runtime", "scene", "resource", "network", "audio", "physics", "input",
   "general"}

\* C12: parseLogContent yields a value for every log text, with at most one
\* event per line: one for each line that matches one of the four shapes and
\* none for blank lines and lines of no shape; every event's category is one
\* of syntax, runtime, scene, resource, network, audio, physics, input, general.
C12_ParseTotal ==
  output.op = "parseLogContent" =>
    LET lines == split(input)
    IN  /\ Len(output.errors) <= Len(lines)
        /\ Len(output.errors) = Cardinality({ i \in 1..Len(lines) : Shaped(lines[i]) })
        /\ \A i \in 1..Len(output.errors) : output.errors[i].category \in ClosedCategories

\* a text of a blank line and a line of no shape was parsed, and a text of a blank
\* line and an event line
C12_Witness ==
  /\ output.op = "parseLogContent"
  /\ input = LineBlank \o <<NL>> \o LineError
  /\ Len(output.errors) = 1

LocatedMsgs ==
  { <<"Null", SP, "reference">>, <<"Audio">>, <<"Input", SP, "Null", SP, "reference">>,
    <<"Player.gd", COLON, "45", COLON, SP, "Audio">> }
LocatedFiles == { <<"Player.gd">>, <<"res", COLON, "//a.gd">> }

LocatedLine(kw, msg, file, ln) ==
  <<kw, SP>> \o msg \o <<SP, "at:", SP>> \o file \o <<COLON, ln>>

NumberOf(ln) == CASE ln = "45" -> 45 [] ln = "7" -> 7

\* C13: a line 'ERROR: <msg> at: <file>:<line>' (or WARNING:), <msg> being the
\* text before the first ' at:' and <line> the digits that end it, yields exactly
\* one event with kind error (or warning), message <msg>, file <file>, line
\* <line> and the category of <msg>, also when the line matches a later
\* pattern as well; 'ERROR: Null reference at: Player.gd:45' yields
\* {error, 'Null reference', 'Player.gd', 45, runtime}.
C13_LocatedLine ==
  output.op = "parseLogContent" =>
    /\ \A kw \in {"ERROR:", "WARNING:"}, msg \in LocatedMsgs, file \in LocatedFiles,
          ln \in DigitTokens :
          trim(input) = LocatedLine(kw, msg, file, ln) =>
            output.errors =
              << [type |-> IF kw = "ERROR:" THEN "error" ELSE "warning", message |-> msg,
                  file |-> file, line |-> NumberOf(ln),
                  category |-> categorizeError(msg)] >>
    /\ input = LineError =>
          output.errors =
            << [type |-> "error", message |-> <<"Null", SP, "reference">>,
                file |-> <<"Player.gd">>, line |-> 45, category |-> "runtime"] >>

\* a located line that the script pattern and the general pattern match too was parsed
C13_Witness ==
  /\ output.op = "parseLogContent"
  /\ input = LineBoth
  /\ matchScript(input) # NoMatch /\ matchGeneral(input) # NoMatch

DeclaredOrder ==
  <<"syntax", "runtime", "scene", "resource", "network", "audio", "physics", "input">>

\* some keyword of the category called name occurs in the text s
Occurs(name, s) ==
  \E c \in 1..Len(Categories) :
    /\ Categories[c].name = name
    /\ \E k \in 1..Len(Categories[c].keywords) : includes(s, Categories[c].keywords[k])

\* C14: categorizeError returns the first category, in the order syntax,
\* runtime, scene, resource, network, audio, physics, input, of which a
\* keyword occurs in the lowercased message, whatever the letter case of the
\* message; 'general' when none occurs.
C14_FirstCategoryWins ==
  output.op = "categorizeError" =>
    LET lower == toLowerCase(input)
    IN  /\ output.category = "general" <=>
              \A i \in 1..Len(DeclaredOrder) : ~Occurs(DeclaredOrder[i], lower)
        /\ \A i \in 1..Len(DeclaredOrder) :
              output.category = DeclaredOrder[i] <=>
                /\ Occurs(DeclaredOrder[i], lower)
                /\ \A j \in 1..(i - 1) : ~Occurs(DeclaredOrder[j], lower)
        /\ categorizeError(lower) = output.category

\* a message in mixed case with keywords of runtime and of input was categorized
C14_Witness ==
  /\ output.op = "categorizeError"
  /\ input = LineMixed
  /\ toLowerCase(input) # input
  /\ Occurs("runtime", toLowerCase(input)) /\ Occurs("input", toLowerCase(input))
  /\ output.category = "runtime"

\* the severity a prefix names
Severity(tok) ==
  CASE tok = "ERROR:" -> "error" [] tok = "WARNING:" -> "warning" [] OTHER -> "info"

\* C23: a line that matches only the generic shape (ERROR|WARNING|INFO): <msg>
\* yields one event whose kind is the severity of the keyword, whose message
\* is <msg>, whose file and line are unset and whose category is that of <msg>.
C23_GenericLine ==
  output.op = "parseLogContent" =>
    LET t == trim(input)
    IN  ( /\ \A i \in 1..Len(input) : input[i] # NL
          /\ Len(t) >= 3 /\ t[1] \in {"ERROR:", "WARNING:", "INFO:"}
          /\ t[2] = SP /\ t[3] # SP
          /\ matchLocated(t, "ERROR:") = NoMatch
          /\ matchLocated(t, "WARNING:") = NoMatch
          /\ matchScript(t) = NoMatch )
        => output.errors =
             << [type |-> Severity(t[1]), message |-> SubSeq(t, 3, Len(t)),
                 file |-> <<>>, line |-> NoLine,
                 category |-> categorizeError(SubSeq(t, 3, Len(t)))] >>

(***************************************************************************)
(* analyzeErrorLog: the patterns and the suggestions of a log text.        *)
(*                                                                         *)
(* messageCounts and the result of groupBy are object literals {}: a key   *)
(* that names a property every object inherits (constructor, toString,     *)
(* ...) reads as that property before it was ever written.                 *)
(***************************************************************************)
\* as a one-word text, and as a word
ProtoKeys == { <<"constructor">> }
ProtoNames == { "constructor" }

LineProtoMessage == <<"ERROR:", SP, "constructor", SP, "at:", SP, "Player.gd", COLON, "7">>
LineProtoFile == <<"WARNING:", SP, "Audio", SP, "at:", SP, "constructor", COLON, "7">>

AnalyzeLineSet == { LineError, LineInfo, LineProtoMessage, LineProtoFile }

AnalyzeTexts ==
  { JoinLines(ls) : ls \in UNION { [1..n -> AnalyzeLineSet] : n \in 1..MaxLogLines } }

Count(seq, v) == Cardinality({ i \in 1..Len(seq) : seq[i] = v })

\* the keys of an object in the order Object.entries lists them: the order in
\* which they were first written
RECURSIVE FirstKeys(_)
FirstKeys(seq) ==
  IF seq = <<>> THEN <<>>
  ELSE LET init == SubSeq(seq, 1, Len(seq) - 1)
       IN  IF Count(init, Last(seq)) > 0 THEN FirstKeys(init)
           ELSE Append(FirstKeys(init), Last(seq))

\* (messageCounts[msg] || 0) + 1 over all messages: a number, or for an inherited
\* key a text, which compares as NaN
messageCount(messages, msg) == IF msg \in ProtoKeys THEN NaN ELSE Count(messages, msg)

\* groupBy: [threw, keys, group]; result[key].push raises a TypeError when
\* result[key] is an inherited property
groupBy(array, keyOf, inherited) ==
  [threw |-> \E i \in 1..Len(array) : array[i][keyOf] \in inherited,
   keys |-> FirstKeys([i \in 1..Len(array) |-> array[i][keyOf]]),
   group |-> [k \in { array[i][keyOf] : i \in 1..Len(array) } |->
                SelectSeq(array, LAMBDA e : e[keyOf] = k)]]

HasFile(e) == e.file # <<>>

\* a pattern text is [kind, key, count]
identifyErrorPatterns(errors) ==
  LET messages == [i \in 1..Len(errors) |-> errors[i].message]
      keys == FirstKeys(messages)
      repeated == [i \in 1..Len(keys) |->
                     [kind |-> "Repeated error", key |-> keys[i],
                      count |-> messageCount(messages, keys[i])]]
      fileGroups == groupBy(SelectSeq(errors, HasFile), "file", ProtoKeys)
      multiple == [i \in 1..Len(fileGroups.keys) |->
                     [kind |-> "Multiple errors in", key |-> fileGroups.keys[i],
                      count |-> Len(fileGroups.group[fileGroups.keys[i]])]]
  IN  [threw |-> fileGroups.threw,
       patterns |-> SelectSeq(repeated, LAMBDA e : e.count > 3)
                    \o SelectSeq(multiple, LAMBDA e : e.count > 5)]

SuggestedCategories == {"syntax", "runtime", "scene", "resource"}

\* a suggestion text is [category, count]
generateErrorSuggestions(errors) ==
  LET categories == groupBy(errors, "category", ProtoNames)
      all == [i \in 1..Len(categories.keys) |->
                [category |-> categories.keys[i],
                 count |-> Len(categories.group[categories.keys[i]])]]
  IN  SelectSeq(all, LAMBDA e : e.category \in SuggestedCategories)

NoAnalysis ==
  [op |-> "analyzeErrorLog", success |-> FALSE, errors |-> <<>>, warnings |-> <<>>,
   totalErrors |-> 0, totalWarnings |-> 0, patterns |-> <<>>, suggestions |-> <<>>]

\* analyzeErrorLog with a log text given; an exception ends in {success: false}.
\* The tallies by category and by file of analyzeErrors are left out.
analyzeErrorLog(logContent) ==
  LET errors == parseLogContent(logContent)
      found == identifyErrorPatterns(errors)
  IN  IF found.threw THEN NoAnalysis
      ELSE [NoAnalysis EXCEPT
              !.success = TRUE,
              !.errors = SelectSeq(errors, IsError),
              !.warnings = SelectSeq(errors, IsWarning),
              !.totalErrors = Len(SelectSeq(errors, IsError)),
              !.totalWarnings = Len(SelectSeq(errors, IsWarning)),
              !.patterns = found.patterns,
              !.suggestions = generateErrorSuggestions(errors)]

InitAnalyze == NoSessions /\ input \in AnalyzeTexts /\ output = NoOutput

Analyze ==
  /\ output = NoOutput
  /\ output' = analyzeErrorLog(input)
  /\ UNCHANGED <<sessionVars, input>>

NextAnalyze == Analyze

SpecAnalyze == InitAnalyze /\ [][NextAnalyze]_vars

\* the entries of kind in patterns that name key
Entries(patterns, kind, key) ==
  { i \in 1..Len(patterns) : patterns[i].kind = kind /\ patterns[i].key = key }

\* C15: the patterns of analyze hold a 'Repeated error' entry with count c for
\* exactly the distinct messages that occur c > 3 times and a 'Multiple errors
\* in <file>' entry for exactly the files with more than 5 events, and nothing
\* else.
C15_PatternsExact ==
  output.op = "analyzeErrorLog" =>
    LET events == parseLogContent(input)
        messages == [i \in 1..Len(events) |-> events[i].message]
        files == [i \in 1..Len(events) |-> events[i].file]
        Repeated == { m \in { messages[i] : i \in 1..Len(events) } : Count(messages, m) > 3 }
        Crowded == { f \in { files[i] : i \in 1..Len(events) } \ { <<>> } :
                       Count(files, f) > 5 }
    IN  /\ output.success
        /\ \A m \in Repeated :
              \E i \in Entries(output.patterns, "Repeated error", m) :
                output.patterns[i].count = Count(messages, m)
        /\ \A f \in Crowded :
              \E i \in Entries(output.patterns, "Multiple errors in", f) :
                output.patterns[i].count = Count(files, f)
        /\ Len(output.patterns) = Cardinality(Repeated) + Cardinality(Crowded)

\* C16: the suggestions of analyzeErrorLog hold, for each category present
\* among the parsed events, exactly one recommendation with that category's
\* event count; there are as many suggestions as categories present.
C16_SuggestionPerCategory ==
  (output.op = "analyzeErrorLog" /\ output.success) =>
    LET events == parseLogContent(input)
        categories == [i \in 1..Len(events) |-> events[i].category]
        Present == { categories[i] : i \in 1..Len(events) }
    IN  /\ Len(output.suggestions) = Cardinality(Present)
        /\ \A c \in Present :
              \E i \in 1..Len(output.suggestions) :
                /\ output.suggestions[i].category = c
                /\ output.suggestions[i].count = Count(categories, c)

(***************************************************************************)
(* analyzeCrashDump.                                                       *)
(***************************************************************************)
\* line.match(/at (.+):(\d+)/): the leftmost "at " after which the pattern can
\* match, (.+) greedy; <<>> for null
matchFrame(t) ==
  LET Ends(i) == { e \in (i + 2)..(Len(t) - 2) :
                     t[e + 1] = COLON /\ t[e + 2] \in DigitTokens }
      Starts == { i \in 1..(Len(t) - 1) : t[i] = "at" /\ t[i + 1] = SP /\ Ends(i) # {} }
  IN  IF Starts = {} THEN NoMatch
      ELSE LET i == CHOOSE x \in Starts : \A y \in Starts : x <= y
               e == CHOOSE x \in Ends(i) : \A y \in Ends(i) : x >= y
           IN  <<[m1 |-> SubSeq(t, i + 2, e), m2 |-> <<t[e + 2]>>]>>

IsSegfault(line) ==
  includes(line, <<"Segmentation", SP, "fault">>) \/ includes(line, <<"SIGSEGV">>)

IsStackOverflow(line) ==
  includes(line, <<"Stack", SP, "overflow">>) \/ includes(line, <<"SIGSTK">>)

SegfaultCauses ==
  <<"Memory access violation", "Null pointer dereference", "Buffer overflow">>
StackOverflowCauses ==
  <<"Infinite recursion", "Excessive local variables", "Deep function calls">>

NoLocation == <<>>

crashLineKeepFirst(analysis, line) ==
  IF IsSegfault(line)
    THEN [analysis EXCEPT !.type = IF @ = "unknown" THEN "segmentation_fault" ELSE @,
                          !.causes = @ \o SegfaultCauses]
  ELSE IF IsStackOverflow(line)
    THEN [analysis EXCEPT !.type = IF @ = "unknown" THEN "stack_overflow" ELSE @,
                          !.causes = @ \o StackOverflowCauses]
  ELSE IF includes(line, <<"at", SP>>) /\ includes(line, <<COLON>>)
    THEN LET match == matchFrame(line)
         IN  IF match # NoMatch
             THEN [analysis EXCEPT !.location = match[1].m1 \o <<COLON>> \o match[1].m2,
                                   !.stackTrace = Append(@, trim(line))]
             ELSE analysis
  ELSE analysis

\* the body of the loop of parseCrashDump for one line
crashLine(analysis, line) ==
  IF IsSegfault(line)
    THEN [analysis EXCEPT !.type = "segmentation_fault", !.causes = @ \o SegfaultCauses]
  ELSE IF IsStackOverflow(line)
    THEN [analysis EXCEPT !.type = "stack_overflow", !.causes = @ \o StackOverflowCauses]
  ELSE IF includes(line, <<"at", SP>>) /\ includes(line, <<COLON>>)
    THEN LET match == matchFrame(line)
         IN  IF match # NoMatch
             THEN [analysis EXCEPT !.location = match[1].m1 \o <<COLON>> \o match[1].m2,
                                   !.stackTrace = Append(@, trim(line))]
             ELSE analysis
  ELSE analysis

RECURSIVE crashLines(_, _)
crashLines(analysis, lines) ==
  IF lines = <<>> THEN analysis
  ELSE crashLines(crashLine(analysis, Head(lines)), Tail(lines))

parseCrashDump(crashInfo) ==
  crashLines([type |-> "unknown", location |-> NoLocation, stackTrace |-> <<>>,
              causes |-> <<>>],
             split(crashInfo))

generateCrashSuggestions(analysis) ==
  CASE analysis.type = "segmentation_fault" ->
         <<"Add null checks before accessing objects",
           "Validate array indices before access",
           "Use safe references instead of direct memory access">>
    [] analysis.type = "stack_overflow" ->
         <<"Check for infinite recursion in your code",
           "Reduce local variable usage in deep functions",
           "Consider iterative solutions instead of recursive ones">>
    [] OTHER -> <<"Enable debug mode for more detailed crash information">>

\* the titles of the examples
generateFixExamples(analysis) ==
  IF analysis.type = "segmentation_fault" THEN <<"Null Check Example">> ELSE <<>>

analyzeCrashDump(crashInfo) ==
  LET analysis == parseCrashDump(crashInfo)
  IN  [op |-> "analyzeCrashDump", success |-> TRUE,
       crashType |-> analysis.type, location |-> analysis.location,
       stackTrace |-> analysis.stackTrace, possibleCauses |-> analysis.causes,
       suggestions |-> generateCrashSuggestions(analysis),
       fixExamples |-> generateFixExamples(analysis)]

CrashSegfault == <<"Segmentation", SP, "fault">>
CrashStackOverflow == <<"Stack", SP, "overflow">>
CrashFrame == <<SP, SP, "at", SP, "Player.gd", COLON, "45">>
CrashFrameRes == <<"at", SP, "res", COLON, "//a.gd", COLON, "7">>
CrashSegfaultAt == <<"Segmentation", SP, "fault", SP, "at", SP, "Player.gd", COLON, "7">>
CrashNoNumber == <<"at", SP, "Player.gd", COLON, SP, "hello">>
CrashSignal == <<"SIGSTK">>

CrashLineSet ==
  { CrashSegfault, CrashStackOverflow, CrashFrame, CrashFrameRes, CrashSegfaultAt,
    CrashNoNumber, CrashSignal }

CrashTexts ==
  { JoinLines(ls) : ls \in UNION { [1..n -> CrashLineSet] : n \in 0..MaxCrashLines } }

InitCrash == NoSessions /\ input \in CrashTexts /\ output = NoOutput

AnalyzeCrash ==
  /\ output = NoOutput
  /\ output' = analyzeCrashDump(input)
  /\ UNCHANGED <<sessionVars, input>>

NextCrash == AnalyzeCrash

SpecCrash == InitCrash /\ [][NextCrash]_vars

\* the lines of the crash text that name a crash type
Indicating(lines) ==
  { i \in 1..Len(lines) : IsSegfault(lines[i]) \/ IsStackOverflow(lines[i]) }

\* the lines of the crash text that match 'at <path>:<line>'
IsFrame(line) == matchFrame(line) # NoMatch

\* C17: crashType is the type of the last line of the crash text that names a
\* crash type, and 'unknown' exactly when no line names one.
C17_LastIndicatorWins ==
  output.op = "analyzeCrashDump" =>
    LET lines == split(input)
        I == Indicating(lines)
    IN  /\ output.crashType = "unknown" <=> I = {}
        /\ I # {} =>
              LET l == CHOOSE i \in I : \A j \in I : i >= j
              IN  output.crashType =
                    IF IsSegfault(lines[l]) THEN "segmentation_fault" ELSE "stack_overflow"

\* a text with a 'Segmentation fault' line and then a 'Stack overflow' line was analysed
C17_Witness ==
  /\ output.op = "analyzeCrashDump"
  /\ input = CrashSegfault \o <<NL>> \o CrashStackOverflow
  /\ output.crashType = "stack_overflow"

\* C18: location is the '<path>:<line>' of the first line of the crash text
\* that matches 'at <path>:<line>'; later matching lines do not change it.
C18_FirstFrameIsLocation ==
  output.op = "analyzeCrashDump" =>
    LET lines == split(input)
        F == { i \in 1..Len(lines) : IsFrame(lines[i]) }
    IN  IF F = {} THEN output.location = NoLocation
        ELSE LET f == CHOOSE i \in F : \A j \in F : i <= j
             IN  output.location =
                   matchFrame(lines[f])[1].m1 \o <<COLON>> \o matchFrame(lines[f])[1].m2

\* C19: every line of the crash text that matches 'at <path>:<line>' is a
\* stack frame, in line order, also a line that names a crash type as well;
\* there are as many stack frames as matching lines.
C19_EveryFrameRecorded ==
  output.op = "analyzeCrashDump" =>
    LET frames == SelectSeq(split(input), IsFrame)
    IN  /\ Len(output.stackTrace) = Len(frames)
        /\ output.stackTrace = [i \in 1..Len(frames) |-> trim(frames[i])]

\* C30: possibleCauses is a set: no entry occurs twice, and its entries are
\* the union of the three causes of each kind of indicator that occurs in the
\* crash text (none when no indicator occurs).
C30_CausesAreASet ==
  output.op = "analyzeCrashDump" =>
    LET lines == split(input)
        causes == output.possibleCauses
        Expected ==
          (IF \E i \in 1..Len(lines) : IsSegfault(lines[i])
             THEN { SegfaultCauses[c] : c \in 1..Len(SegfaultCauses) } ELSE {})
          \cup
          (IF \E i \in 1..Len(lines) : IsStackOverflow(lines[i])
             THEN { StackOverflowCauses[c] : c \in 1..Len(StackOverflowCauses) } ELSE {})
    IN  /\ \A a, b \in 1..Len(causes) : causes[a] = causes[b] => a = b
        /\ { causes[a] : a \in 1..Len(causes) } = Expected

(***************************************************************************)
(* calculateProjectHealth.  The diagnostics are the five issue counts.     *)
(***************************************************************************)
StructureWeight == 5
ScriptWeight == 3
SceneWeight == 2
DependencyWeight == 4
PerformanceWeight == 2
FullScore == 100
ExcellentFrom == 90
GoodFrom == 75
FairFrom == 50

calculateProjectHealthAbove(diagnostics) ==
  LET score == FullScore - diagnostics.structural * StructureWeight
                         - diagnostics.script * ScriptWeight
                         - diagnostics.scene * SceneWeight
                         - diagnostics.dependency * DependencyWeight
                         - diagnostics.performance * PerformanceWeight
  IN  IF score > ExcellentFrom THEN "Excellent"
      ELSE IF score > GoodFrom THEN "Good"
      ELSE IF score > FairFrom THEN "Fair"
      ELSE "Poor"

calculateProjectHealth(diagnostics) ==
  LET score == FullScore - diagnostics.structural * StructureWeight
                         - diagnostics.script * ScriptWeight
                         - diagnostics.scene * SceneWeight
                         - diagnostics.dependency * DependencyWeight
                         - diagnostics.performance * PerformanceWeight
  IN  IF score >= ExcellentFrom THEN "Excellent"
      ELSE IF score >= GoodFrom THEN "Good"
      ELSE IF score >= FairFrom THEN "Fair"
      ELSE "Poor"

Diagnostics ==
  [structural : 0..MaxIssues, script : 0..MaxIssues, scene : 0..MaxIssues,
   dependency : 0..MaxIssues, performance : 0..MaxIssues]

InitHealth == NoSessions /\ input \in Diagnostics /\ output = NoOutput

Health ==
  /\ output = NoOutput
  /\ output' = [op |-> "calculateProjectHealth", health |-> calculateProjectHealth(input)]
  /\ UNCHANGED <<sessionVars, input>>

NextHealth == Health

SpecHealth == InitHealth /\ [][NextHealth]_vars

NoIssues ==
  [structural |-> 0, script |-> 0, scene |-> 0, dependency |-> 0, performance |-> 0]

\* Excellent 3, Good 2, Fair 1, Poor 0
Rank(health) ==
  CASE health = "Excellent" -> 3 [] health = "Good" -> 2 [] health = "Fair" -> 1
    [] health = "Poor" -> 0

\* C20: the health is the band of score = 100 - 5*structural - 3*script -
\* 2*scene - 4*dependency - 2*performance, not clamped: Excellent from 90,
\* Good from 75, Fair from 50, Poor below, also below zero; no issues give
\* Excellent, 2 dependency issues Excellent, 3 dependency issues and 4 script
\* errors Good; one more issue of any kind never gives a better band.
C20_HealthBands ==
  output.op = "calculateProjectHealth" =>
    LET score == 100 - 5 * input.structural - 3 * input.script - 2 * input.scene
                     - 4 * input.dependency - 2 * input.performance
    IN  /\ output.health = "Excellent" <=> score >= 90
        /\ output.health = "Good" <=> (75 <= score /\ score < 90)
        /\ output.health = "Fair" <=> (50 <= score /\ score < 75)
        /\ output.health = "Poor" <=> score < 50
        /\ input = NoIssues => output.health = "Excellent"
        /\ input = [NoIssues EXCEPT !.dependency = 2] => output.health = "Excellent"
        /\ input = [NoIssues EXCEPT !.dependency = 3, !.script = 4] => output.health = "Good"
        /\ \A k \in DOMAIN input :
              Rank(calculateProjectHealth([input EXCEPT ![k] = @ + 1])) <= Rank(output.health)

\* the score is below zero and the health was computed
C20_Witness ==
  /\ output.op = "calculateProjectHealth"
  /\ 100 - 5 * input.structural - 3 * input.script - 2 * input.scene
          - 4 * input.dependency - 2 * input.performance < 0
  /\ output.health = "Poor"

(***************************************************************************)
(* suggestFix.                                                             *)
(***************************************************************************)
\* the pattern table of identifyErrorPattern in declaration order; an example is
\* its title
FixPatterns == <<
  [type |-> "Null Reference", category |-> "runtime",
   keywords |-> << <<"null">>, <<"invalid", SP, "get", SP, "index">>,
                   <<"invalid", SP, "call">> >>,
   examples |-> <<"Null Check">>,
   docs |-> "Always check if objects exist before using them"],
  [type |-> "Scene Not Found", category |-> "resource",
   keywords |-> << <<"scene", SP, "not", SP, "found">>,
                   <<"failed", SP, "to", SP, "load", SP, "scene">> >>,
   examples |-> <<"Scene Loading">>,
   docs |-> "Verify scene paths are correct and files exist"] >>

UnknownPattern ==
  [type |-> "Unknown Error", category |-> "general", examples |-> <<>>,
   docs |-> "Check Godot documentation for more information"]

identifyErrorPatternLastWins(errorMessage) ==
  LET lowerMessage == toLowerCase(errorMessage)
      Hits == { p \in 1..Len(FixPatterns) :
                  \E k \in 1..Len(FixPatterns[p].keywords) :
                    includes(lowerMessage, FixPatterns[p].keywords[k]) }
  IN  IF Hits = {} THEN UnknownPattern
      ELSE LET p == CHOOSE x \in Hits : \A y \in Hits : x >= y
           IN  [type |-> FixPatterns[p].type, category |-> FixPatterns[p].category,
                examples |-> FixPatterns[p].examples, docs |-> FixPatterns[p].docs]

identifyErrorPattern(errorMessage) ==
  LET lowerMessage == toLowerCase(errorMessage)
      Hits == { p \in 1..Len(FixPatterns) :
                  \E k \in 1..Len(FixPatterns[p].keywords) :
                    includes(lowerMessage, FixPatterns[p].keywords[k]) }
  IN  IF Hits = {} THEN UnknownPattern
      ELSE LET p == CHOOSE x \in Hits : \A y \in Hits : x <= y
           IN  [type |-> FixPatterns[p].type, category |-> FixPatterns[p].category,
                examples |-> FixPatterns[p].examples, docs |-> FixPatterns[p].docs]

\* a context is [given, text]
NoContext == [given |-> FALSE, text |-> <<>>]

getFixSuggestionsWithContext(errorPattern, context) ==
  LET fixed ==
        CASE errorPattern.type = "Null Reference" ->
               <<"Add null checks before accessing objects",
                 "Initialize variables before use",
                 "Use is_valid() for object validation">>
          [] errorPattern.type = "Scene Not Found" ->
               <<"Verify the scene path is correct",
                 "Check if the scene file exists",
                 "Use resource preloading for frequently used scenes">>
          [] OTHER -> <<"Check the Godot documentation for this error type">>
  IN  IF context.given THEN Append(fixed, "In this context") ELSE fixed

getFixSuggestions(errorPattern, context) ==
  CASE errorPattern.type = "Null Reference" ->
         <<"Add null checks before accessing objects",
           "Initialize variables before use",
           "Use is_valid() for object validation">>
    [] errorPattern.type = "Scene Not Found" ->
         <<"Verify the scene path is correct",
           "Check if the scene file exists",
           "Use resource preloading for frequently used scenes">>
    [] OTHER -> <<"Check the Godot documentation for this error type">>

suggestFix(errorMessage, context) ==
  LET errorPattern == identifyErrorPattern(errorMessage)
  IN  [op |-> "suggestFix", success |-> TRUE,
       errorType |-> errorPattern.type, category |-> errorPattern.category,
       suggestions |-> getFixSuggestions(errorPattern, context),
       codeExamples |-> errorPattern.examples,
       documentation |-> errorPattern.docs]

MessageReadme ==
  <<"Invalid", SP, "get", SP, "index", SP, "'health'", SP, "(on", SP, "base", COLON, SP,
    "'null", SP, "instance')">>

FixParts ==
  { <<"Null">>, <<"Scene", SP, "not", SP, "found">>, <<"hello">>, <<"Invalid", SP, "call">>,
    <<"Failed", SP, "to", SP, "load", SP, "scene">>, <<"scene">> }

\* parts joined by blanks
RECURSIVE JoinWords(_)
JoinWords(ps) ==
  IF ps = <<>> THEN <<>>
  ELSE IF Len(ps) = 1 THEN ps[1]
  ELSE ps[1] \o <<SP>> \o JoinWords(Tail(ps))

FixMessages ==
  { MessageReadme } \cup
  { JoinWords(ps) : ps \in UNION { [1..n -> FixParts] : n \in 0..MaxParts } }

FixContexts ==
  { NoContext, [given |-> TRUE, text |-> <<>>],
    [given |-> TRUE, text |-> <<"Player", SP, "character", SP, "script">>] }

InitFix ==
  /\ NoSessions
  /\ input \in [errorMessage : FixMessages, context : FixContexts]
  /\ output = NoOutput

SuggestFix ==
  /\ output = NoOutput
  /\ output' = suggestFix(input.errorMessage, input.context)
  /\ UNCHANGED <<sessionVars, input>>

NextFix == SuggestFix

SpecFix == InitFix /\ [][NextFix]_vars

\* a keyword of pattern p of the table occurs in the text s
FixOccurs(p, s) ==
  \E k \in 1..Len(FixPatterns[p].keywords) : includes(s, FixPatterns[p].keywords[k])

\* C21: suggestFix always returns success; errorType, category, examples and
\* docs are those of the first pattern, nullReference before sceneNotFound, of
\* which a keyword occurs in the lowercased message (a message with keywords
\* of both is a Null Reference), and 'Unknown Error', 'general' and no
\* examples when no keyword occurs.
C21_FirstPatternWins ==
  output.op = "suggestFix" =>
    LET lower == toLowerCase(input.errorMessage)
    IN  /\ output.success
        /\ FixOccurs(1, lower) =>
              /\ output.errorType = "Null Reference" /\ output.category = "runtime"
              /\ output.codeExamples = <<"Null Check">>
              /\ output.documentation = "Always check if objects exist before using them"
        /\ (~FixOccurs(1, lower) /\ FixOccurs(2, lower)) =>
              /\ output.errorType = "Scene Not Found" /\ output.category = "resource"
              /\ output.codeExamples = <<"Scene Loading">>
              /\ output.documentation = "Verify scene paths are correct and files exist"
        /\ (~FixOccurs(1, lower) /\ ~FixOccurs(2, lower)) =>
              /\ output.errorType = "Unknown Error" /\ output.category = "general"
              /\ output.codeExamples = <<>>

\* a message with keywords of both patterns was given
C21_Witness ==
  /\ output.op = "suggestFix"
  /\ FixOccurs(1, toLowerCase(input.errorMessage))
  /\ FixOccurs(2, toLowerCase(input.errorMessage))
  /\ output.errorType = "Null Reference"

WhichEnds ==
  { <<"exit1", "exit1", "exit1", "exit1">>,
    <<"exit0", "exit1", "exit0", "throw">>,
    <<"throw", "exit1", "exit0", "exit0">>,
    <<"exit0", "exit0", "exit0", "exit0">> }

\* result.exitCode on the line after spawn: the child has not been reaped
exitCodeAfterSpawn(end) == IF end = "throw" THEN "throw" ELSE "null"

InitLookup ==
  /\ activeSessions = InitState.activeSessions
  /\ godotProcesses = InitState.godotProcesses
  /\ sessions = InitState.sessions
  /\ calls = InitState.calls
  /\ procs = InitState.procs
  /\ snapshots = InitState.snapshots
  /\ now = InitState.now
  /\ input \in WhichEnds
  /\ output = NoOutput

StartLookup ==
  \E sessionId \in ExplicitIds \cup {NoId}, generated \in GeneratedIds :
    LET id == SessionIdOr(sessionId, generated)
        fresh == activeSessions[id] = Absent
        outcome == [i \in 1..Len(possibleNames) |-> exitCodeAfterSpawn(input[i])]
    IN  \E date \in Dates(id, fresh) :
          /\ fresh => Len(calls) < MaxCalls
          /\ Apply(startDebugSession(State, sessionId, generated, outcome, date).st)

NextLookup == StartLookup \/ Launch \/ StartReturn \/ Stop \/ Get

SpecLookup == InitLookup /\ [][NextLookup]_vars

\* C24: when a candidate name resolves on PATH, startDebugSession launches the
\* process, attaches the callbacks and stores the handle under the session id:
\* once the call has returned and the session is still active, the session has
\* a process handle.
C24_ResolvedNameLaunches ==
  \A k \in 1..Len(calls) :
    ( /\ calls[k].pc = "returned"
      /\ activeSessions[calls[k].id] = k
      /\ \E i \in 1..Len(possibleNames) : input[i] = "exit0" )
    => /\ godotProcesses[calls[k].id] = k
       /\ Attached(k)

====
